---- MODULE Spec2Model ----
(***************************************************************************)
(* Model of the EncryptEPUB handler of pkg/api/encrypt_handler.go.         *)
(*                                                                         *)
(* Each request is one goroutine running EncryptEPUB; the requests share   *)
(* only the filesystem below os.TempDir().  A path is the sequence of the  *)
(* names below os.TempDir(): <<>> is os.TempDir() itself, <<d>> a          *)
(* directory made by os.MkdirTemp, <<d, "output">> its output directory.   *)
(* Every filesystem entry remembers the request that created it, so that   *)
(* a directory name that is used again after a removal is seen to be       *)
(* another directory.                                                      *)
(***************************************************************************)
EXTENDS Integers, Sequences, FiniteSets, TLC

\* ---------------------------------------------------------------- bounds
\* Names os.MkdirTemp may draw for "lcp-encrypt-*".
NumTempNames == 2
\* Largest encrypted artifact the engine writes, in bytes.
MaxArtifactLen == 2

\* ------------------------------------------------------ program constants
\* r.ParseMultipartForm(50 << 20)
MaxMemory == 52428800
\* mime/multipart ReadForm: non-file parts may use maxMemory + 10 MiB.
ValueSlack == 10485760
StatusOK == 200
StatusBadRequest == 400
StatusInternalServerError == 500

\* ------------------------------------------------------------- requests
Reqs == {1, 2}
TempNames == 1..NumTempNames
ArtifactLens == 1..MaxArtifactLen

\* A form field that the request does not carry.
NoField == "<absent>"
\* The uploaded file names header.Filename can hold: multipart's
\* Part.FileName passes the client's name through filepath.Base, which
\* leaves a plain name, "." or "..".
PlainName == "book.epub"
FileNames == {PlainName, "output", ".", ".."}
\* The sizes of the file part: a small file, and one just over MaxMemory.
SmallFile == 3
FileSizes == {SmallFile, MaxMemory + 1}

\* A request as the client sent it.
\*   valid      the body is well-formed multipart and was read to its end
\*   valueBytes total size of the non-file parts
\*   hasFile    a file part named "file" is present
\*   fileName   header.Filename of that part
\*   fileBytes  size of that part
\*   formTitle  the multipart field "title" (NoField when not sent)
\*   queryTitle the URL query parameter "title" (NoField when not sent)
MkRequest(valid, valueBytes, hasFile, fileName, fileBytes, formTitle, queryTitle) ==
    [valid |-> valid, valueBytes |-> valueBytes, hasFile |-> hasFile,
     fileName |-> fileName, fileBytes |-> fileBytes,
     formTitle |-> formTitle, queryTitle |-> queryTitle]

\* The slot handles no request.
NoRequest == MkRequest(FALSE, 0, FALSE, NoField, 0, NoField, NoField)

AllRequests ==
    { MkRequest(v, vb, TRUE, fn, fb, ft, qt) :
        v \in BOOLEAN, vb \in {0, MaxMemory + ValueSlack + 1},
        fn \in FileNames, fb \in FileSizes,
        ft \in {NoField, "", "Form Title"},
        qt \in {NoField, "", "Query Title"} }
    \cup
    { MkRequest(TRUE, 0, FALSE, NoField, 0, ft, qt) :
        ft \in {NoField, "", "Form Title"},
        qt \in {NoField, "", "Query Title"} }

\* The requests of the concurrent runs: two uploads at a time, with the
\* titles left out.
ConcurrentRequests ==
    { q \in AllRequests :
        /\ q.formTitle = NoField /\ q.queryTitle = NoField
        /\ q.valueBytes = 0
        /\ q.fileBytes \in {0, SmallFile} }

BodyBytes(q) == q.valueBytes + q.fileBytes

\* ---------------------------------------------------------------- paths
TempDirPath == <<>>

\* filepath.Join(dir, name) for a name that is a single element:
\* Join cleans the result, so "." is dir and ".." is its parent.
Join(dir, name) ==
    IF name = "." THEN dir
    ELSE IF name = ".."
         THEN (IF dir = <<>> THEN <<>> ELSE SubSeq(dir, 1, Len(dir) - 1))
         ELSE Append(dir, name)

IsPrefix(p, q) == Len(p) <= Len(q) /\ SubSeq(q, 1, Len(p)) = p

\* ----------------------------------------------------------- filesystem
NoData == [what |-> "none", of |-> 0, len |-> 0]
\* The first n bytes of the file part uploaded by request r.
UploadData(r, n) == [what |-> "upload", of |-> r, len |-> n]
\* An encrypted artifact of n bytes made from the upload of request r.
ArtifactData(r, n) == [what |-> "artifact", of |-> r, len |-> n]

DirEntry(r) == [kind |-> "dir", by |-> r, data |-> NoData]
FileEntry(r, d) == [kind |-> "file", by |-> r, data |-> d]

Exists(f, p) == p \in DOMAIN f
IsDir(f, p) == Exists(f, p) /\ f[p].kind = "dir"
IsFile(f, p) == Exists(f, p) /\ f[p].kind = "file"

\* The filesystem f with entry e at path p.
Put(f, p, e) == [q \in DOMAIN f \cup {p} |-> IF q = p THEN e ELSE f[q]]

\* The request whose workspace holds path p (0: below no workspace).
WorkspaceOf(f, p) ==
    IF Len(p) >= 1 /\ IsDir(f, <<p[1]>>) THEN f[<<p[1]>>].by ELSE 0

\* os.Remove in place of os.RemoveAll: removes p only when nothing is in it.
RemoveEmpty(f, p) ==
    IF \E x \in DOMAIN f : x # p /\ IsPrefix(p, x)
    THEN f
    ELSE [q \in DOMAIN f \ {p} |-> f[q]]

\* The filesystem f without the tree rooted at p (os.RemoveAll).
RemoveTree(f, p) == [q \in {x \in DOMAIN f : ~IsPrefix(p, x)} |-> f[q]]

\* ------------------------------------------------- net/http, as called
\* A body that ends early or is malformed taken for a complete one.
ParseMultipartFormErrSizeOnly(q) == q.valueBytes > MaxMemory + ValueSlack

\* r.ParseMultipartForm(maxMemory) fails when the body is not well-formed
\* multipart (or ends early), and when the non-file parts need more than
\* maxMemory + 10 MiB.  File parts beyond maxMemory are kept in temporary
\* files; their size never fails the parse.
ParseMultipartFormErr(q) ==
    \/ ~q.valid
    \/ q.valueBytes > MaxMemory + ValueSlack

\* A file part that does not fit in maxMemory is kept by ParseMultipartForm
\* in a temporary file "multipart-*" of os.TempDir(), which net/http removes
\* after the handler has returned.
Spills(q) == q.hasFile /\ q.fileBytes > MaxMemory
MultipartTmp(r) == <<0 - r>>
MultipartData(r, n) == [what |-> "multipart", of |-> r, len |-> n]

\* The error of r.FormFile left unchecked.
FormFileErrIgnored(q) == FALSE

\* r.FormFile("file") fails with ErrMissingFile when no such part exists.
FormFileErr(q) == ~q.hasFile

\* r.Form after ParseMultipartForm: the URL query's values first, the
\* multipart values appended after them.
FormValues(q) ==
    (IF q.queryTitle # NoField THEN <<q.queryTitle>> ELSE <<>>)
    \o (IF q.formTitle # NoField THEN <<q.formTitle>> ELSE <<>>)

\* r.FormValue("title"): the first value of r.Form["title"], or "".
FormValue(q) == IF Len(FormValues(q)) > 0 THEN FormValues(q)[1] ELSE ""

\* ------------------------------------------------------------ the engine
\* encrypt.ProcessEncryption is the external engine: it reads the staged
\* input, writes the artifact below the output directory and returns its
\* descriptor, or an error.
ContentTypeEPUB == "application/epub+zip"
EngineFileNames == {"encrypted.epub"}
EngineTitles == {"", "Embedded Title"}
KeyOf(id) == <<"key", id>>
ChecksumOf(d) == <<"sha256", d.of, d.len>>

NilPublication ==
    [UUID |-> 0, EncryptionKey |-> <<>>, Size |-> 0, Checksum |-> <<>>,
     ContentType |-> "", Title |-> "", FileName |-> ""]

\* The descriptor of artifact d, written as file name fn for content id.
Descriptor(id, d, fn, t) ==
    [UUID |-> id, EncryptionKey |-> KeyOf(id), Size |-> d.len,
     Checksum |-> ChecksumOf(d), ContentType |-> ContentTypeEPUB,
     Title |-> t, FileName |-> fn]

\* ---------------------------------------------------------- the response
\* base64.StdEncoding.EncodeToString
Base64(k) == <<"base64", k>>

\* The X-Encrypt-Metadata header: <<>> while unset, else <<its value>>.
NoMetadata == <<>>

\* The metadata with its Size left at the zero value.
EncryptResponseNoSize(pub, t) ==
    [UUID |-> pub.UUID, EncryptionKey |-> Base64(pub.EncryptionKey),
     Size |-> 0, Checksum |-> pub.Checksum,
     ContentType |-> pub.ContentType, Title |-> t,
     FileName |-> pub.FileName]

\* The EncryptResponse built from the descriptor and the resolved title.
EncryptResponse(pub, t) ==
    [UUID |-> pub.UUID, EncryptionKey |-> Base64(pub.EncryptionKey),
     Size |-> pub.Size, Checksum |-> pub.Checksum,
     ContentType |-> pub.ContentType, Title |-> t,
     FileName |-> pub.FileName]

\* json.Marshal(metadata): the struct's fields under their json tags.  A
\* struct of strings and a uint32 always marshals: the error branch of
\* lines 125-129 is never taken.
Marshal(m) ==
    [uuid |-> m.UUID, encryption_key |-> m.EncryptionKey, size |-> m.Size,
     checksum |-> m.Checksum, content_type |-> m.ContentType,
     title |-> m.Title, file_name |-> m.FileName]

\* The title of the metadata: the form's title unless it is empty.
ResolveTitle(formTitle, pub) == IF formTitle # "" THEN formTitle ELSE pub.Title

\* The staged input opened in place of the engine's output.
EncryptedPathOfInput(outDir, pub) == Join(Join(outDir, ".."), PlainName)

\* The path of the file that is streamed.
EncryptedPath(outDir, pub) == Join(outDir, pub.FileName)

\* A text (a log line, an error body) is the sequence of its parts: each
\* part is a pair of what it is and its value.
Text(s) == <<"text", s>>
\* err.Error() of the error of a step.
ErrOf(step) == <<"err", step>>

\* "attachment; filename=\"" + fn + "\""
ContentDisposition(fn) == <<"attachment; filename=", fn>>

\* A response to which nothing was written yet.
NoResponse ==
    [status |-> 0, meta |-> NoMetadata, contentType |-> "",
     disposition |-> <<>>, errText |-> <<>>, body |-> NoData]

\* What reaches the ResponseWriter, call by call.
SetHeader(name) == <<"Header.Set", name>>
WriteStatus(code) == <<"WriteHeader", code>>
WriteBody(what) == <<"Write", what>>

\* The calls of http.Error: its two headers, the status, the text.
HttpErrorCalls(code) ==
    <<SetHeader("Content-Type"), SetHeader("X-Content-Type-Options"),
      WriteStatus(code), WriteBody("text")>>

\* Every failure answered as an internal error.
HttpErrorAlways500(code, text) ==
    [status |-> StatusInternalServerError, meta |-> NoMetadata,
     contentType |-> "text/plain; charset=utf-8",
     disposition |-> <<>>, errText |-> text, body |-> NoData]

\* http.Error(w, text, code)
HttpError(code, text) ==
    [status |-> code, meta |-> NoMetadata,
     contentType |-> "text/plain; charset=utf-8",
     disposition |-> <<>>, errText |-> text, body |-> NoData]

\* ---------------------------------------------------------------- state
VARIABLES
    request,        \* request[r]: what the client of r sent
    pc,             \* pc[r]: the statement r executes next
    fs,             \* the filesystem below os.TempDir()
    w,              \* w[r]: the response written so far
    title,          \* the handler's locals, per request
    tempDir,
    inputPath,
    contentID,
    outputDir,
    publication,
    pubTitle,
    encryptedFile,
    defers,         \* defers[r]: the deferred calls, in order of registration
    open,           \* open[r]: the file handles r holds open
    nextUUID,       \* the identifiers uuid.New has given out
    logs,           \* logs[r]: the messages r has logged
    sent,           \* sent[r]: the calls r has made on its ResponseWriter
    hist            \* hist[r]: what has happened to r (history)

locals == <<title, tempDir, inputPath, contentID, outputDir, publication,
            pubTitle, encryptedFile>>
vars == <<request, pc, fs, w, title, tempDir, inputPath, contentID, outputDir,
          publication, pubTitle, encryptedFile, defers, open, nextUUID, logs,
          sent, hist>>

\* The zero value of a path variable.
NoPath == <<0>>
\* A handle that is not open.
NoFile == [path |-> NoPath, data |-> NoData]

\* hist[r]:
\*   failedAt     the step whose failure ended the request ("" for none)
\*   released     how often os.RemoveAll(tempDir) has run
\*   acquired     how often os.MkdirTemp has made a directory
\*   touched      the owners of the workspaces whose paths r has accessed
\*   engineCalls  how often the engine was invoked
\*   engineInput  the content of the staged input when the engine was invoked
\*   engineOK     the engine has returned without an error
\*   bodyPath     the path of the file whose bytes were written as the body
\*   engineArgs   the arguments of the call of the engine
\*   unwound      the deferred calls that have run, in the order they ran
\*   opened       whether os.Open was given a path that was "found" or was
\*                "missing" ("" until it is called)
NoHistory ==
    [failedAt |-> "", released |-> 0, acquired |-> 0, touched |-> {},
     engineCalls |-> 0, engineInput |-> NoData, engineOK |-> FALSE,
     bodyPath |-> NoPath, opened |-> "", engineArgs |-> <<>>,
     unwound |-> <<>>]

InitWith(reqs) ==
    /\ request = reqs
    /\ pc = [r \in Reqs |-> IF reqs[r] = NoRequest THEN "absent"
                                                   ELSE "ParseMultipartForm"]
    /\ fs = (TempDirPath :> DirEntry(0))
    /\ w = [r \in Reqs |-> NoResponse]
    /\ title = [r \in Reqs |-> ""]
    /\ tempDir = [r \in Reqs |-> NoPath]
    /\ inputPath = [r \in Reqs |-> NoPath]
    /\ contentID = [r \in Reqs |-> 0]
    /\ outputDir = [r \in Reqs |-> NoPath]
    /\ publication = [r \in Reqs |-> NilPublication]
    /\ pubTitle = [r \in Reqs |-> ""]
    /\ encryptedFile = [r \in Reqs |-> NoFile]
    /\ defers = [r \in Reqs |-> <<>>]
    /\ open = [r \in Reqs |-> {}]
    /\ nextUUID = 1
    /\ logs = [r \in Reqs |-> <<>>]
    /\ sent = [r \in Reqs |-> <<>>]
    /\ hist = [r \in Reqs |-> NoHistory]

\* Two requests handled at the same time.
Init == \E reqs \in [Reqs -> ConcurrentRequests] : InitWith(reqs)

\* One request, over all the inputs.
InitOne ==
    \E q \in AllRequests :
        InitWith([r \in Reqs |-> IF r = 1 THEN q ELSE NoRequest])

\* ------------------------------------------------------- handler's exits
\* The handler returns: the deferred calls run, the last registered first.
Exit(ds) == IF ds = <<>> THEN "returned" ELSE "unwind"

\* The removal of the workspace not deferred.
DeferNoRemoveAll(ds, f) == IF f = "os.RemoveAll" THEN ds ELSE Append(ds, f)

\* `defer f()`: registers f behind the calls registered before.
Defer(ds, f) == Append(ds, f)

\* A log entry: its level, its format and the values formatted into it.
LogEntry(level, msg, args) == [level |-> level, msg |-> msg, args |-> args]

\* The error logged and answered without the return: the step is run again.
FailWithoutReturn(r, step, lg, msg, text, code, h) ==
    /\ logs' = [logs EXCEPT ![r] =
                  Append(lg, LogEntry("error", msg, <<ErrOf(step)>>))]
    /\ w' = [w EXCEPT ![r] = HttpError(code, text)]
    /\ sent' = [sent EXCEPT ![r] = @ \o HttpErrorCalls(code)]
    /\ pc' = pc
    /\ hist' = [hist EXCEPT ![r] = [h EXCEPT !.failedAt = step]]

\* log.Errorf(msg, err); http.Error(w, text, code); return
\* lg is the log before the message, h the history of r before the failure.
Fail(r, step, lg, msg, text, code, h) ==
    /\ logs' = [logs EXCEPT ![r] =
                  Append(lg, LogEntry("error", msg, <<ErrOf(step)>>))]
    /\ w' = [w EXCEPT ![r] = HttpError(code, text)]
    /\ sent' = [sent EXCEPT ![r] = @ \o HttpErrorCalls(code)]
    /\ pc' = [pc EXCEPT ![r] = Exit(defers[r])]
    /\ hist' = [hist EXCEPT ![r] = [h EXCEPT !.failedAt = step]]

Touch(h, f, p) == [h EXCEPT !.touched = @ \cup {WorkspaceOf(f, p)}]

\* ------------------------------------------------------------ the steps
\* Lines 35-42: log, r.ParseMultipartForm(50 << 20).
ParseMultipartForm(r) ==
    /\ pc[r] = "ParseMultipartForm"
    /\ LET lg == Append(logs[r], LogEntry("info", "EncryptEPUB: request received", <<>>))
       IN IF ParseMultipartFormErr(request[r])
          THEN /\ Fail(r, "parse", lg,
                       "EncryptEPUB: failed to parse multipart form",
                       <<Text("failed to parse multipart form")>>, StatusBadRequest,
                       hist[r])
               /\ UNCHANGED fs
          ELSE /\ logs' = [logs EXCEPT ![r] = lg]
               /\ fs' = IF Spills(request[r])
                        THEN Put(fs, MultipartTmp(r),
                                 FileEntry(r, MultipartData(r, request[r].fileBytes)))
                        ELSE fs
               /\ pc' = [pc EXCEPT ![r] = "FormFile"]
               /\ UNCHANGED <<sent, w, hist>>
    /\ UNCHANGED <<request, locals, defers, open, nextUUID>>

\* Lines 45-54: r.FormFile("file"), defer file.Close(), r.FormValue("title").
FormFile(r) ==
    /\ pc[r] = "FormFile"
    /\ IF FormFileErr(request[r])
       THEN /\ Fail(r, "formfile", logs[r], "EncryptEPUB: missing file field",
                    <<Text("missing 'file' field")>>, StatusBadRequest, hist[r])
            /\ UNCHANGED <<title, defers, open>>
       ELSE /\ open' = [open EXCEPT ![r] = @ \cup {"file"}]
            /\ defers' = [defers EXCEPT ![r] = Defer(@, "file.Close")]
            /\ title' = [title EXCEPT ![r] = FormValue(request[r])]
            /\ pc' = [pc EXCEPT ![r] = "MkdirTemp"]
            /\ UNCHANGED <<sent, w, logs, hist>>
    /\ UNCHANGED <<request, fs, tempDir, inputPath, contentID, outputDir,
                   publication, pubTitle, encryptedFile, nextUUID>>

\* A directory name taken whether or not it is in use.
AnyTempNames(f) == TempNames

\* The names os.MkdirTemp can give a new directory: those not in use.
FreshTempNames(f) == {d \in TempNames : ~Exists(f, <<d>>)}

\* Lines 57-63: os.MkdirTemp("", "lcp-encrypt-*"), defer os.RemoveAll(tempDir).
MkdirTemp(r) ==
    /\ pc[r] = "MkdirTemp"
    /\ \/ /\ Fail(r, "mkdirtemp", logs[r],
                  "EncryptEPUB: failed to create temp dir",
                  <<Text("internal server error")>>, StatusInternalServerError, hist[r])
          /\ UNCHANGED <<fs, tempDir, defers>>
       \/ \E d \in FreshTempNames(fs) :
            /\ fs' = Put(fs, <<d>>, DirEntry(r))
            /\ tempDir' = [tempDir EXCEPT ![r] = <<d>>]
            /\ defers' = [defers EXCEPT ![r] = Defer(@, "os.RemoveAll")]
            /\ hist' = [hist EXCEPT ![r] =
                          [Touch(@, fs, <<d>>) EXCEPT !.acquired = @ + 1]]
            /\ pc' = [pc EXCEPT ![r] = "os.Create"]
            /\ UNCHANGED <<sent, w, logs>>
    /\ UNCHANGED <<request, title, inputPath, contentID, outputDir,
                   publication, pubTitle, encryptedFile, open, nextUUID>>

\* Lines 66-67, 146-154: filepath.Join(tempDir, header.Filename), and in
\* saveMultipartFile os.Create(dst), which fails on a directory.
Create(r) ==
    /\ pc[r] = "os.Create"
    /\ LET dst == Join(tempDir[r], request[r].fileName)
           h == Touch(hist[r], fs, dst)
       IN /\ inputPath' = [inputPath EXCEPT ![r] = dst]
          /\ \/ /\ Fail(r, "save", logs[r],
                        "EncryptEPUB: failed to save uploaded file",
                        <<Text("internal server error")>>, StatusInternalServerError, h)
                /\ UNCHANGED <<fs, open>>
             \/ /\ ~IsDir(fs, dst)
                /\ fs' = Put(fs, dst, FileEntry(r, UploadData(r, 0)))
                /\ open' = [open EXCEPT ![r] = @ \cup {"out"}]
                /\ hist' = [hist EXCEPT ![r] = h]
                /\ pc' = [pc EXCEPT ![r] = "io.Copy(out)"]
                /\ UNCHANGED <<sent, w, logs>>
    /\ UNCHANGED <<request, title, tempDir, contentID, outputDir, publication,
                   pubTitle, encryptedFile, defers, nextUUID>>

\* The byte counts at which a copy of total bytes can break off.
PartialCopies(total) == {n \in {0, total - 1} : n >= 0 /\ n < total}

\* The error of io.Copy dropped.
SaveErrDropped(written, total) == FALSE

\* saveMultipartFile's result: the error of io.Copy.
SaveErr(written, total) == written < total

\* Lines 155-156, 67-71: io.Copy(out, src), the deferred out.Close().
CopyUpload(r) ==
    /\ pc[r] = "io.Copy(out)"
    /\ \E n \in PartialCopies(request[r].fileBytes) \cup {request[r].fileBytes} :
         /\ fs' = Put(fs, inputPath[r], FileEntry(r, UploadData(r, n)))
         /\ open' = [open EXCEPT ![r] = @ \ {"out"}]
         /\ IF SaveErr(n, request[r].fileBytes)
            THEN Fail(r, "save", logs[r],
                      "EncryptEPUB: failed to save uploaded file",
                      <<Text("internal server error")>>, StatusInternalServerError,
                      hist[r])
            ELSE /\ pc' = [pc EXCEPT ![r] = "MkdirAll"]
                 /\ UNCHANGED <<sent, w, logs, hist>>
    /\ UNCHANGED <<request, locals, defers, nextUUID>>

\* A file in the place of the directory not noticed.
MkdirAllErrIgnored(f, dir) == FALSE

\* os.MkdirAll(dir) fails when dir is a file.
MkdirAllErr(f, dir) == IsFile(f, dir)

\* Lines 74-82: uuid.New(), os.MkdirAll(filepath.Join(tempDir, "output")),
\* which fails when the path is a file.
MkdirAll(r) ==
    /\ pc[r] = "MkdirAll"
    /\ LET dir == Join(tempDir[r], "output")
           h == Touch(hist[r], fs, dir)
       IN /\ contentID' = [contentID EXCEPT ![r] = nextUUID]
          /\ nextUUID' = nextUUID + 1
          /\ outputDir' = [outputDir EXCEPT ![r] = dir]
          /\ \/ /\ Fail(r, "mkdirall", logs[r],
                        "EncryptEPUB: failed to create output dir",
                        <<Text("internal server error")>>, StatusInternalServerError, h)
                /\ UNCHANGED fs
             \/ /\ ~MkdirAllErr(fs, dir)
                /\ fs' = IF IsDir(fs, dir) THEN fs ELSE Put(fs, dir, DirEntry(r))
                /\ hist' = [hist EXCEPT ![r] = h]
                /\ pc' = [pc EXCEPT ![r] = "ProcessEncryption"]
                /\ UNCHANGED <<sent, w, logs>>
    /\ UNCHANGED <<request, title, tempDir, inputPath, publication, pubTitle,
                   encryptedFile, defers, open>>

\* The content the engine finds at its input path.
EngineRead(f, p) == IF IsFile(f, p) THEN f[p].data ELSE NoData

\* The engine called with the extraction of the cover switched on.
EngineArgsWithCover(id, input, outDir) ==
    <<id, "", input, "", outDir, "", "", "", TRUE, FALSE>>

\* Lines 87-90: contentID, contentKey, inputPath, tempRepo, outputRepo,
\* storageRepo, storageURL, storageFilename, extractCover, pdfNoMeta.
EngineArgs(id, input, outDir) ==
    <<id, "", input, "", outDir, "", "", "", FALSE, FALSE>>

\* Line 87: encrypt.ProcessEncryption is called and reads the staged input.
EngineStart(r) ==
    /\ pc[r] = "ProcessEncryption"
    /\ hist' = [hist EXCEPT ![r] =
                  [Touch(@, fs, inputPath[r]) EXCEPT
                      !.engineCalls = @ + 1,
                      !.engineArgs = EngineArgs(contentID[r], inputPath[r],
                                                outputDir[r]),
                      !.engineInput = EngineRead(fs, inputPath[r])]]
    /\ pc' = [pc EXCEPT ![r] = "engine"]
    /\ UNCHANGED <<request, fs, sent, w, locals, defers, open, nextUUID, logs>>

\* Lines 87-95: the engine returns an error, or writes the artifact below
\* the output directory and returns its descriptor, or (against its
\* contract) returns a descriptor of a file it has not written.
EngineReturn(r) ==
    /\ pc[r] = "engine"
    /\ \/ /\ Fail(r, "engine", logs[r], "EncryptEPUB: encryption failed",
                  <<Text("encryption failed: "), ErrOf("engine")>>,
                  StatusInternalServerError, hist[r])
          /\ UNCHANGED <<fs, publication>>
       \/ /\ hist[r].engineInput # NoData
          /\ \E n \in ArtifactLens, t \in EngineTitles, fn \in EngineFileNames :
               LET art == ArtifactData(hist[r].engineInput.of, n)
                   dst == Join(outputDir[r], fn)
               IN /\ fs' = Put(fs, dst, FileEntry(r, art))
                  /\ publication' =
                       [publication EXCEPT ![r] = Descriptor(contentID[r], art, fn, t)]
                  /\ hist' = [hist EXCEPT ![r] =
                                [Touch(@, fs, dst) EXCEPT !.engineOK = TRUE]]
          /\ pc' = [pc EXCEPT ![r] = "os.Open"]
          /\ UNCHANGED <<sent, w, logs>>
       \/ /\ hist[r].engineInput # NoData
          /\ \E fn \in EngineFileNames :
               publication' =
                 [publication EXCEPT ![r] =
                    Descriptor(contentID[r],
                               ArtifactData(hist[r].engineInput.of, 1), fn, "")]
          /\ hist' = [hist EXCEPT ![r].engineOK = TRUE]
          /\ pc' = [pc EXCEPT ![r] = "os.Open"]
          /\ UNCHANGED <<fs, sent, w, logs>>
    /\ UNCHANGED <<request, title, tempDir, inputPath, contentID, outputDir,
                   pubTitle, encryptedFile, defers, open, nextUUID>>

\* A missing file opened all the same.
OpenErrIgnored(f, p) == FALSE

\* os.Open(p) fails when nothing is at p.
OpenErr(f, p) == ~Exists(f, p)

\* The content read through a handle on p.
FileData(f, p) == IF Exists(f, p) THEN f[p].data ELSE NoData

\* Lines 98-111: the title, os.Open(filepath.Join(outputDir,
\* publication.FileName)), defer encryptedFile.Close().
Open(r) ==
    /\ pc[r] = "os.Open"
    /\ LET path == EncryptedPath(outputDir[r], publication[r])
           h == [Touch(hist[r], fs, path) EXCEPT
                   !.opened = IF Exists(fs, path) THEN "found" ELSE "missing"]
       IN /\ pubTitle' = [pubTitle EXCEPT ![r] = ResolveTitle(title[r], publication[r])]
          /\ \/ /\ Fail(r, "open", logs[r],
                        "EncryptEPUB: failed to open encrypted file",
                        <<Text("internal server error")>>, StatusInternalServerError, h)
                /\ UNCHANGED <<encryptedFile, defers, open>>
             \/ /\ ~OpenErr(fs, path)
                /\ encryptedFile' = [encryptedFile EXCEPT ![r] =
                                       [path |-> path, data |-> FileData(fs, path)]]
                /\ open' = [open EXCEPT ![r] = @ \cup {"encryptedFile"}]
                /\ defers' = [defers EXCEPT ![r] = Defer(@, "encryptedFile.Close")]
                /\ hist' = [hist EXCEPT ![r] = h]
                /\ pc' = [pc EXCEPT ![r] = "WriteHeader"]
                /\ UNCHANGED <<sent, w, logs>>
    /\ UNCHANGED <<request, fs, title, tempDir, inputPath, contentID, outputDir,
                   publication, nextUUID>>

\* The status written before the headers are set.
StatusBeforeHeaders ==
    <<WriteStatus(StatusOK), SetHeader("X-Encrypt-Metadata"),
      SetHeader("Content-Type"), SetHeader("Content-Disposition")>>

\* Lines 132-135: the three headers, then the status.
SuccessHeaderCalls ==
    <<SetHeader("X-Encrypt-Metadata"), SetHeader("Content-Type"),
      SetHeader("Content-Disposition"), WriteStatus(StatusOK)>>

\* Lines 114-135: the metadata, json.Marshal, the three headers,
\* w.WriteHeader(http.StatusOK).
WriteHeader(r) ==
    /\ pc[r] = "WriteHeader"
    /\ w' = [w EXCEPT ![r] =
               [status |-> StatusOK,
                meta |-> <<Marshal(EncryptResponse(publication[r], pubTitle[r]))>>,
                contentType |-> publication[r].ContentType,
                disposition |-> ContentDisposition(publication[r].FileName),
                errText |-> <<>>, body |-> NoData]]
    /\ sent' = [sent EXCEPT ![r] = @ \o SuccessHeaderCalls]
    /\ pc' = [pc EXCEPT ![r] = "io.Copy(w)"]
    /\ UNCHANGED <<request, fs, locals, defers, open, nextUUID, logs, hist>>

\* The first n bytes of content d.
Prefix(d, n) == [d EXCEPT !.len = n]

\* The success line with the content key in it.
SuccessLogWithKey(pub, t) ==
    LogEntry("info", "EncryptEPUB: success",
             << <<"uuid", pub.UUID>>, <<"title", t>>, <<"size", pub.Size>>,
                pub.EncryptionKey >>)

\* Line 142: log.Infof("... uuid=%s, title=%s, size=%d", ...)
SuccessLog(pub, t) ==
    LogEntry("info", "EncryptEPUB: success",
             << <<"uuid", pub.UUID>>, <<"title", t>>, <<"size", pub.Size>> >>)

\* An error answered after the copy to the client has failed.
StreamCallsWithError(n, total) ==
    (IF n > 0 THEN <<WriteBody("artifact")>> ELSE <<>>)
    \o (IF n < total THEN HttpErrorCalls(StatusInternalServerError) ELSE <<>>)

\* Lines 137-140: the calls io.Copy makes on the ResponseWriter when it
\* writes n of total bytes; after a failure nothing more is written.
StreamCalls(n, total) == IF n > 0 THEN <<WriteBody("artifact")>> ELSE <<>>

\* Lines 137-143: io.Copy(w, encryptedFile) writes the whole file, or breaks
\* off after n bytes when the client is gone; then the handler returns.
Stream(r) ==
    /\ pc[r] = "io.Copy(w)"
    /\ \E n \in 0..encryptedFile[r].data.len :
         /\ w' = [w EXCEPT ![r].body = Prefix(encryptedFile[r].data, n)]
         /\ sent' = [sent EXCEPT ![r] = @ \o StreamCalls(n, encryptedFile[r].data.len)]
         /\ IF n < encryptedFile[r].data.len
            THEN /\ logs' = [logs EXCEPT ![r] =
                     Append(@, LogEntry("error",
                                        "EncryptEPUB: failed to stream encrypted file",
                                        <<ErrOf("stream")>>))]
                 /\ hist' = [hist EXCEPT ![r].failedAt = "stream",
                                         ![r].bodyPath = encryptedFile[r].path]
            ELSE /\ logs' = [logs EXCEPT ![r] =
                     Append(@, SuccessLog(publication[r], pubTitle[r]))]
                 /\ hist' = [hist EXCEPT ![r].bodyPath = encryptedFile[r].path]
    /\ pc' = [pc EXCEPT ![r] = Exit(defers[r])]
    /\ UNCHANGED <<request, fs, locals, defers, open, nextUUID>>

\* The deferred calls run in the order of their registration.
FirstDeferred(ds) == 1

\* The deferred call that runs next: the one registered last.
TopDeferred(ds) == Len(ds)

\* The handler has returned: the last deferred call still registered runs.
Unwind(r) ==
    /\ pc[r] = "unwind"
    /\ LET i == TopDeferred(defers[r])
           f == defers[r][i]
           rest == SubSeq(defers[r], 1, i - 1)
                      \o SubSeq(defers[r], i + 1, Len(defers[r]))
       IN /\ defers' = [defers EXCEPT ![r] = rest]
          /\ pc' = [pc EXCEPT ![r] = Exit(rest)]
          /\ IF f = "os.RemoveAll"
             THEN /\ fs' = RemoveTree(fs, tempDir[r])
                  /\ hist' = [hist EXCEPT ![r] =
                                [Touch(@, fs, tempDir[r]) EXCEPT
                                    !.released = @ + 1,
                                    !.unwound = Append(@, f)]]
                  /\ UNCHANGED open
             ELSE /\ open' = [open EXCEPT ![r] =
                                @ \ {IF f = "file.Close" THEN "file" ELSE "encryptedFile"}]
                  /\ hist' = [hist EXCEPT ![r].unwound = Append(@, f)]
                  /\ UNCHANGED fs
    /\ UNCHANGED <<request, sent, w, locals, nextUUID, logs>>

Next ==
    \E r \in Reqs :
        \/ ParseMultipartForm(r)
        \/ FormFile(r)
        \/ MkdirTemp(r)
        \/ Create(r)
        \/ CopyUpload(r)
        \/ MkdirAll(r)
        \/ EngineStart(r)
        \/ EngineReturn(r)
        \/ Open(r)
        \/ WriteHeader(r)
        \/ Stream(r)
        \/ Unwind(r)

Spec == Init /\ [][Next]_vars
SpecOne == InitOne /\ [][Next]_vars

\* =============================================================== claims
Handled == {r \in Reqs : pc[r] # "absent"}
\* The handler of r has executed its return statement.
Finished(r) == pc[r] \in {"unwind", "returned"}
Returned(r) == pc[r] = "returned"

\* What request r has made below its temporary directory and is still there.
WorkspaceTree(r) ==
    {p \in DOMAIN fs :
        tempDir[r] # NoPath /\ IsPrefix(tempDir[r], p) /\ fs[p].by = r}

\* r holds a workspace: os.MkdirTemp has made it, os.RemoveAll has not run.
HoldsWorkspace(r) == hist[r].acquired > hist[r].released

\* C1: once the handler has returned, whichever way, the temporary
\* directory made for the request and everything in it no longer exist.
C1_WorkspaceGoneAfterReturn ==
    \A r \in Handled : Returned(r) => WorkspaceTree(r) = {}

\* C1 witness: a request whose engine wrote an artifact has returned.
C1_Witness ==
    \E r \in Handled :
        /\ Returned(r) /\ hist[r].acquired = 1 /\ hist[r].engineOK
        /\ w[r].status = StatusOK

\* C2 as stated: on every exit path the workspace release has run exactly
\* once by the time the handler has returned.
C2_ReleaseOnceOnEveryExit ==
    \A r \in Handled : Returned(r) => hist[r].released = 1

\* C2 amended: the release never runs twice and never before the
\* workspace exists; a handler that returns after os.MkdirTemp succeeded
\* has run it exactly once, and one that returns before (parse failure,
\* missing file, temp-dir failure) has not run it.
C2_ReleaseOncePerWorkspace ==
    \A r \in Handled :
        /\ hist[r].acquired <= 1
        /\ hist[r].released <= hist[r].acquired
        /\ Returned(r) => hist[r].released = hist[r].acquired

\* C2 witness: a request whose streaming broke off has returned, released.
C2_Witness ==
    \E r \in Handled :
        /\ Returned(r) /\ hist[r].failedAt = "stream"
        /\ hist[r].released = 1

\* C3 as stated: for every response with status 200 the metadata's size
\* is the number of body bytes written.
C3_SizeEqualsBodyOn200 ==
    \A r \in Handled :
        (Finished(r) /\ w[r].status = StatusOK)
            => w[r].meta[1].size = w[r].body.len

\* C3 amended: for every response with status 200 the metadata's size is
\* the descriptor's Size; when the streaming ran to the end of the file the
\* body is the whole file the descriptor names and its length is that
\* size; a stream that broke off has written fewer bytes.
C3_SizeEqualsBodyWhenStreamed ==
    \A r \in Handled :
        (Finished(r) /\ w[r].status = StatusOK) =>
            /\ w[r].meta[1].size = publication[r].Size
            /\ hist[r].failedAt # "stream" =>
                  /\ w[r].body = encryptedFile[r].data
                  /\ w[r].meta[1].size = w[r].body.len
            /\ hist[r].failedAt = "stream" => w[r].body.len < w[r].meta[1].size

\* C3 witness: a complete body of more than one byte.
C3_Witness ==
    \E r \in Handled :
        /\ Finished(r) /\ w[r].status = StatusOK /\ hist[r].failedAt = ""
        /\ w[r].body.len > 1

\* C4: in a response with the metadata header, the metadata's fields are
\* those of the request's one descriptor, and the file opened and streamed
\* is the file of that name in the request's own output directory.
C4_MetadataAndBodyFromOneDescriptor ==
    \A r \in Handled :
        w[r].meta # NoMetadata =>
            LET m == w[r].meta[1]
                pub == publication[r]
            IN /\ m.uuid = pub.UUID /\ m.uuid = contentID[r]
               /\ m.encryption_key = Base64(pub.EncryptionKey)
               /\ m.checksum = pub.Checksum
               /\ m.content_type = pub.ContentType
               /\ m.file_name = pub.FileName
               /\ w[r].contentType = pub.ContentType
               /\ w[r].disposition = ContentDisposition(pub.FileName)
               /\ encryptedFile[r].path = Append(Append(tempDir[r], "output"), pub.FileName)
               /\ IsPrefix(outputDir[r], encryptedFile[r].path)
               /\ HoldsWorkspace(r) =>
                    /\ IsFile(fs, encryptedFile[r].path)
                    /\ fs[encryptedFile[r].path].data = encryptedFile[r].data
               /\ w[r].body # NoData =>
                    /\ hist[r].bodyPath = encryptedFile[r].path
                    /\ w[r].body = Prefix(encryptedFile[r].data, w[r].body.len)

\* C4 witness: metadata and a body have been written.
C4_Witness ==
    \E r \in Handled :
        w[r].meta # NoMetadata /\ w[r].body # NoData /\ w[r].body.len > 0

\* C5 as stated: the metadata's title is the form field `title` when that
\* is supplied and not empty, and the engine's title otherwise.
C5_TitleIsFormFieldOrEngineTitle ==
    \A r \in Handled :
        w[r].meta # NoMetadata =>
            w[r].meta[1].title =
                (IF request[r].formTitle \notin {NoField, ""}
                 THEN request[r].formTitle
                 ELSE publication[r].Title)

\* C6: a request that parses and has no `file` part gets status 400, no
\* engine call and no workspace.
C6_MissingFileIs400 ==
    \A r \in Handled :
        ( /\ ~ParseMultipartFormErr(request[r])
          /\ ~request[r].hasFile
          /\ pc[r] \notin {"ParseMultipartForm", "FormFile"} )
        => /\ Returned(r)
           /\ w[r].status = StatusBadRequest
           /\ hist[r].engineCalls = 0
           /\ hist[r].acquired = 0
           /\ tempDir[r] = NoPath
           /\ \A p \in DOMAIN fs : fs[p].by # r

\* C6 witness: such a request has been answered.
C6_Witness ==
    \E r \in Handled :
        /\ ~ParseMultipartFormErr(request[r]) /\ ~request[r].hasFile
        /\ Returned(r) /\ hist[r].failedAt = "formfile"

\* C7 as stated: a request whose multipart body is larger than 50 MiB is
\* refused by the parse with status 400, and reaches neither staging nor
\* the engine.
C7_OversizeBodyIs400 ==
    \A r \in Handled :
        (BodyBytes(request[r]) > MaxMemory /\ pc[r] # "ParseMultipartForm")
        => /\ Returned(r)
           /\ w[r].status = StatusBadRequest
           /\ inputPath[r] = NoPath
           /\ hist[r].engineCalls = 0

ClientFaults == {"parse", "formfile"}
ServerFaults == {"mkdirtemp", "save", "mkdirall", "engine", "open"}

\* C8: the status follows from the step that failed: 400 exactly for a
\* parse failure or a missing file, 500 exactly for a failure of the
\* temp directory, the staging, the output directory, the engine or the
\* opening of the output file, 200 only when none of these has failed;
\* and the parse and the file lookup fail exactly on the requests that
\* are malformed or carry no file.
C8_StatusFollowsFailingStep ==
    \A r \in Handled :
        /\ Finished(r) =>
              /\ w[r].status \in {StatusOK, StatusBadRequest, StatusInternalServerError}
              /\ w[r].status = StatusBadRequest <=> hist[r].failedAt \in ClientFaults
              /\ w[r].status = StatusInternalServerError
                    <=> hist[r].failedAt \in ServerFaults
              /\ w[r].status = StatusOK => hist[r].failedAt \in {"", "stream"}
              /\ hist[r].failedAt = "parse" <=> ParseMultipartFormErr(request[r])
              /\ hist[r].failedAt = "formfile"
                    <=> (~ParseMultipartFormErr(request[r]) /\ ~request[r].hasFile)
        /\ ~Finished(r) => w[r].status \in {0, StatusOK}
        /\ w[r].status = StatusOK => pc[r] \in {"io.Copy(w)", "unwind", "returned"}

\* C8 witness: an engine failure answered with 500 after the other request
\* was refused with 400.
C8_Witness ==
    \E r, s \in Handled :
        /\ Returned(r) /\ hist[r].failedAt = "engine"
        /\ w[r].status = StatusInternalServerError
        /\ Returned(s) /\ hist[s].failedAt = "parse"
        /\ w[s].status = StatusBadRequest

\* C9: two requests handled at the same time never hold the same or nested
\* temporary directories; no step of a request accesses a path below the
\* other's workspace; the staged input, the engine's input, the metadata
\* and the body of a request all derive from its own upload.
C9_RequestsDoNotInterfere ==
    /\ \A r, s \in Handled :
          (r # s /\ HoldsWorkspace(r) /\ HoldsWorkspace(s)) =>
              /\ ~IsPrefix(tempDir[r], tempDir[s])
              /\ ~IsPrefix(tempDir[s], tempDir[r])
    /\ \A r \in Handled :
          /\ hist[r].touched \subseteq {0, r}
          /\ hist[r].engineInput.of \in {0, r}
          /\ encryptedFile[r].data.of \in {0, r}
          /\ w[r].body.of \in {0, r}
          /\ w[r].meta # NoMetadata =>
                w[r].meta[1].checksum = ChecksumOf(ArtifactData(r, w[r].meta[1].size))
          /\ HoldsWorkspace(r) =>
                \A p \in DOMAIN fs : IsPrefix(tempDir[r], p) => fs[p].by = r
    /\ \A p \in DOMAIN fs :
          fs[p].kind = "file" => fs[p].data.of = fs[p].by

\* C9 witness: both requests stream a body while both workspaces exist.
C9_Witness ==
    \A r \in Reqs :
        /\ pc[r] = "unwind" /\ HoldsWorkspace(r)
        /\ w[r].status = StatusOK /\ w[r].body.len > 0

\* C10: the engine is invoked only when the whole upload is in the staged
\* input file and that file is closed, and the status 200 and the body are
\* written only after the engine has returned without an error.
C10_StepsAreSequential ==
    \A r \in Handled :
        /\ hist[r].engineCalls > 0 =>
              /\ hist[r].engineInput = UploadData(r, request[r].fileBytes)
              /\ "out" \notin open[r]
        /\ pc[r] \in {"ProcessEncryption", "engine"} =>
              /\ IsFile(fs, inputPath[r])
              /\ fs[inputPath[r]].data = UploadData(r, request[r].fileBytes)
        /\ (w[r].status = StatusOK \/ w[r].body # NoData) =>
              /\ hist[r].engineOK
              /\ hist[r].engineCalls = 1
              /\ pc[r] \notin {"ProcessEncryption", "engine"}
        /\ hist[r].engineOK => hist[r].engineCalls = 1

\* C10 witness: a body was written to the end.
C10_Witness ==
    \E r \in Handled :
        /\ Returned(r) /\ w[r].status = StatusOK /\ hist[r].failedAt = ""
        /\ w[r].body.len = publication[r].Size

\* The files the handler's staging and the engine have made for r.
StagedOrArtifact(r) ==
    {p \in DOMAIN fs :
        /\ fs[p].kind = "file" /\ fs[p].by = r
        /\ fs[p].data.what \in {"upload", "artifact"}}

\* C11: a request whose upload broke off fails in the parse: it gets no
\* workspace and the engine is never invoked for it; a request whose
\* streaming broke off returns through the removal of its workspace; and
\* after the handler has returned no staged input and no artifact of the
\* request is left anywhere in the filesystem.
C11_DisconnectUnwinds ==
    \A r \in Handled :
        /\ ~request[r].valid =>
              /\ hist[r].engineCalls = 0
              /\ hist[r].acquired = 0
              /\ inputPath[r] = NoPath
              /\ \A p \in DOMAIN fs : fs[p].by # r
              /\ pc[r] # "ParseMultipartForm" =>
                    Returned(r) /\ w[r].status = StatusBadRequest
        /\ (hist[r].failedAt = "stream" /\ Returned(r)) => hist[r].released = 1
        /\ Returned(r) => StagedOrArtifact(r) = {}

\* C11 witness: one request's upload broke off, the other's streaming did,
\* after both the staged input and the artifact had been written.
C11_Witness ==
    \E r, s \in Handled :
        /\ ~request[r].valid /\ Returned(r)
        /\ request[s].valid /\ Returned(s) /\ hist[s].failedAt = "stream"
        /\ hist[s].engineOK /\ encryptedFile[s].data.what = "artifact"

\* The positions in sent[r] of the calls of one kind.
CallsOf(r, kind) == {i \in DOMAIN sent[r] : sent[r][i][1] = kind}

\* C12: a request writes at most one status, exactly one once its handler
\* has returned, and never a byte of body before it. A failure before the
\* streaming answers an error status, without the X-Encrypt-Metadata header
\* and without a byte of the artifact. A failure during the streaming leaves
\* the status at 200 and writes no error text: the body is just shorter than
\* the artifact.
C12_OneStatusThenBody ==
    \A r \in Handled :
        /\ Cardinality(CallsOf(r, "WriteHeader")) <= 1
        /\ Finished(r) => Cardinality(CallsOf(r, "WriteHeader")) = 1
        /\ \A i \in CallsOf(r, "Write") :
              \E j \in CallsOf(r, "WriteHeader") : j < i
        /\ hist[r].failedAt \in ClientFaults \cup ServerFaults =>
              /\ w[r].status \in {StatusBadRequest, StatusInternalServerError}
              /\ w[r].meta = NoMetadata
              /\ w[r].body = NoData
              /\ \A i \in CallsOf(r, "Header.Set") :
                    sent[r][i][2] # "X-Encrypt-Metadata"
              /\ \A i \in CallsOf(r, "Write") : sent[r][i][2] # "artifact"
        /\ hist[r].failedAt = "stream" =>
              /\ w[r].status = StatusOK
              /\ w[r].errText = <<>>
              /\ \A i \in CallsOf(r, "Write") : sent[r][i][2] = "artifact"
              /\ \A i \in CallsOf(r, "Write") :
                    \A j \in DOMAIN sent[r] : j <= i
              /\ w[r].body.len < encryptedFile[r].data.len

\* C12 witness: one request failed in the engine, the other broke off in the
\* streaming after a part of the artifact had been written.
C12_Witness ==
    \E r, s \in Handled :
        /\ Returned(r) /\ hist[r].failedAt = "engine"
        /\ Returned(s) /\ hist[s].failedAt = "stream" /\ w[s].body.len > 0

\* The content keys the engine has returned to the handlers.
ContentKeys ==
    {publication[r].EncryptionKey : r \in {s \in Reqs : hist[s].engineOK}}

\* A part of a text carries key k, raw or base64-encoded.
Leaks(part, k) ==
    IF part[1] = "key" THEN part = k
    ELSE IF part[1] = "base64" THEN part[2] = k
    ELSE FALSE

\* C13: no content key the engine has returned is formatted into a log
\* entry or into the text of an error response, of the request it belongs
\* to or of another one; a response carries metadata only with status 200,
\* and there the key stands base64-encoded in the field encryption_key.
C13_KeyOnlyInMetadata ==
    \A r \in Handled :
        /\ \A k \in ContentKeys :
              /\ \A i \in DOMAIN logs[r] :
                    \A j \in DOMAIN logs[r][i].args :
                        ~Leaks(logs[r][i].args[j], k)
              /\ \A j \in DOMAIN w[r].errText : ~Leaks(w[r].errText[j], k)
        /\ w[r].meta # NoMetadata =>
              /\ w[r].status = StatusOK
              /\ w[r].errText = <<>>
              /\ hist[r].engineOK
              /\ w[r].meta[1].encryption_key = Base64(KeyOf(contentID[r]))
              /\ w[r].meta[1].encryption_key # KeyOf(contentID[r])
        /\ w[r].body.what \notin {"key", "base64"}

\* C13 witness: one request has logged its success and answered the key in
\* the metadata, the other has an error text that quotes the engine's error.
C13_Witness ==
    \E r, s \in Handled :
        /\ Returned(r) /\ hist[r].failedAt = ""
        /\ logs[r][Len(logs[r])] = SuccessLog(publication[r], pubTitle[r])
        /\ w[r].meta # NoMetadata
        /\ Returned(s) /\ hist[s].failedAt = "engine"
        /\ w[s].errText = <<Text("encryption failed: "), ErrOf("engine")>>

\* The step makes, rewrites or removes the entry at path p.
Changed(p) ==
    IF p \in DOMAIN fs /\ p \in DOMAIN fs'
    THEN fs'[p] # fs[p]
    ELSE p \in DOMAIN fs \cup DOMAIN fs'

\* Request r takes the step.
Acts(r) == pc'[r] # pc[r] \/ defers'[r] # defers[r]

\* C14: every entry of the filesystem a step of request r makes, writes or
\* removes lies in the temporary directory made for r, whatever the name of
\* the upload.
C14_WritesInsideWorkspace ==
    [][\A r \in Reqs :
          Acts(r) =>
             \A p \in DOMAIN fs \cup DOMAIN fs' :
                Changed(p) => tempDir'[r] # NoPath /\ IsPrefix(tempDir'[r], p)]_vars

\* C15: a request that answers 200 has called, in this order, Header.Set
\* for X-Encrypt-Metadata, for Content-Type and for Content-Disposition, then
\* WriteHeader(200), and after it only writes of the artifact's bytes; the
\* content type is the descriptor's, the disposition names the descriptor's
\* file as an attachment; and no request sets a header after its status.
C15_HeadersStatusBodyInOrder ==
    \A r \in Handled :
        /\ w[r].status = StatusOK =>
              /\ Len(sent[r]) >= 4
              /\ SubSeq(sent[r], 1, 4) =
                    <<SetHeader("X-Encrypt-Metadata"), SetHeader("Content-Type"),
                      SetHeader("Content-Disposition"), WriteStatus(StatusOK)>>
              /\ \A i \in 5..Len(sent[r]) : sent[r][i] = WriteBody("artifact")
              /\ w[r].meta # NoMetadata
              /\ w[r].contentType = publication[r].ContentType
              /\ w[r].disposition = <<"attachment; filename=", publication[r].FileName>>
              /\ w[r].body.len > 0 => Len(sent[r]) = 5
        /\ \A i \in CallsOf(r, "Header.Set") :
              \A j \in CallsOf(r, "WriteHeader") : i < j

\* C15 witness: a request has answered 200 and streamed the whole artifact.
C15_Witness ==
    \E r \in Handled :
        /\ Returned(r) /\ hist[r].failedAt = "" /\ w[r].status = StatusOK
        /\ w[r].body.len = publication[r].Size /\ w[r].body.len > 0
        /\ sent[r][Len(sent[r])] = WriteBody("artifact")

\* C16: when the engine has returned a descriptor and the file it names is
\* not in the output directory, os.Open fails and the request fails with
\* it: it answers 500, sets no X-Encrypt-Metadata header and writes no
\* status 200, and its workspace is removed before the handler has returned.
C16_MissingArtifactFails ==
    \A r \in Handled :
        (hist[r].engineOK /\ hist[r].opened = "missing") =>
            /\ Finished(r)
            /\ hist[r].failedAt = "open"
            /\ w[r].status = StatusInternalServerError
            /\ w[r].meta = NoMetadata
            /\ w[r].body = NoData
            /\ \A i \in CallsOf(r, "WriteHeader") : sent[r][i][2] # StatusOK
            /\ \A i \in CallsOf(r, "Header.Set") :
                  sent[r][i][2] # "X-Encrypt-Metadata"
            /\ Returned(r) => hist[r].released = 1 /\ WorkspaceTree(r) = {}

\* C16 witness: the engine returned a descriptor of a file it had not
\* written, and the handler has returned.
C16_Witness ==
    \E r \in Handled :
        /\ hist[r].engineOK /\ hist[r].opened = "missing"
        /\ ~Exists(fs, EncryptedPath(outputDir[r], publication[r]))
        /\ publication[r] # NilPublication
        /\ Returned(r)

\* C17: the engine is called at most once for a request, and then with the
\* identifier generated for this request and for no other, an empty content
\* key, the path of the staged input, the output directory of the request's
\* own workspace, empty repository and storage parameters and both flags
\* off.
C17_EngineCalledOnceWithFixedArgs ==
    \A r \in Handled :
        /\ hist[r].engineCalls <= 1
        /\ hist[r].engineCalls = 0 => hist[r].engineArgs = <<>>
        /\ hist[r].engineCalls = 1 =>
              /\ Len(hist[r].engineArgs) = 10
              /\ hist[r].engineArgs[1] = contentID[r]
              /\ contentID[r] \in 1..(nextUUID - 1)
              /\ \A s \in Handled \ {r} : contentID[s] # contentID[r]
              /\ hist[r].engineArgs[2] = ""
              /\ hist[r].engineArgs[3] = Join(tempDir[r], request[r].fileName)
              /\ hist[r].engineArgs[3] = inputPath[r]
              /\ hist[r].engineArgs[4] = ""
              /\ hist[r].engineArgs[5] = Join(tempDir[r], "output")
              /\ IsPrefix(tempDir[r], hist[r].engineArgs[5])
              /\ HoldsWorkspace(r) =>
                    WorkspaceOf(fs, hist[r].engineArgs[5]) = r
              /\ hist[r].engineArgs[6] = ""
              /\ hist[r].engineArgs[7] = ""
              /\ hist[r].engineArgs[8] = ""
              /\ hist[r].engineArgs[9] = FALSE
              /\ hist[r].engineArgs[10] = FALSE

\* C17 witness: the engine has been called for both requests and both
\* handlers have returned.
C17_Witness ==
    \E r, s \in Handled :
        /\ r # s /\ Returned(r) /\ Returned(s)
        /\ hist[r].engineCalls = 1 /\ hist[s].engineCalls = 1

\* The failures after which the request has no workspace.
BeforeWorkspace == {"parse", "formfile", "mkdirtemp"}

\* What is left for a request that has failed: the deferred calls.
OnlyUnwinds(r) ==
    /\ pc'[r] \in {"unwind", "returned"}
    /\ hist'[r].failedAt = hist[r].failedAt
    /\ hist'[r].engineCalls = hist[r].engineCalls
    /\ hist'[r].acquired = hist[r].acquired
    /\ w'[r] = w[r] /\ sent'[r] = sent[r] /\ logs'[r] = logs[r]
    /\ inputPath'[r] = inputPath[r] /\ outputDir'[r] = outputDir[r]
    /\ publication'[r] = publication[r] /\ encryptedFile'[r] = encryptedFile[r]
    /\ \A p \in DOMAIN fs' : p \in DOMAIN fs /\ fs'[p] = fs[p]

\* What a request that has failed at each step has not done.
NoLaterStep(r) ==
    /\ hist[r].failedAt \in BeforeWorkspace =>
          /\ hist[r].acquired = 0 /\ tempDir[r] = NoPath
          /\ inputPath[r] = NoPath
    /\ hist[r].failedAt \in BeforeWorkspace \cup {"save", "mkdirall"} =>
          /\ hist[r].engineCalls = 0
          /\ publication[r] = NilPublication
    /\ hist[r].failedAt = "save" => outputDir[r] = NoPath
    /\ hist[r].failedAt = "engine" =>
          /\ hist[r].engineCalls = 1
          /\ ~hist[r].engineOK
    /\ hist[r].failedAt \in BeforeWorkspace \cup {"save", "mkdirall", "engine"} =>
          hist[r].opened = ""
    /\ hist[r].failedAt \in ClientFaults \cup ServerFaults =>
          /\ encryptedFile[r] = NoFile
          /\ "encryptedFile" \notin open[r]
          /\ w[r].meta = NoMetadata
          /\ w[r].body = NoData
          /\ hist[r].bodyPath = NoPath
          /\ Len(logs[r]) = 2
          /\ \A i \in CallsOf(r, "WriteHeader") : sent[r][i][2] # StatusOK

\* C18: a request that has failed at a step has executed its return: no
\* later step of it has run or runs, the failed step is not run again, all
\* that still happens for it are its deferred calls, and when the handler
\* has returned the request holds no workspace.
C18_FailureIsTerminal ==
    /\ [](\A r \in Handled :
             hist[r].failedAt # "" =>
                /\ Finished(r)
                /\ NoLaterStep(r)
                /\ Returned(r) =>
                      /\ ~HoldsWorkspace(r)
                      /\ hist[r].released = hist[r].acquired
                      /\ WorkspaceTree(r) = {})
    /\ [][\A r \in Handled :
             (hist[r].failedAt # "" /\ Acts(r)) => OnlyUnwinds(r)]_vars

\* C18 witness: one request failed when its upload was saved, the other in
\* the engine, and both handlers have returned.
C18_Witness ==
    \E r, s \in Handled :
        /\ Returned(r) /\ hist[r].failedAt = "save"
        /\ Returned(s) /\ hist[s].failedAt = "engine"

\* The steps up to and including os.MkdirAll.
UpToMkdirAll ==
    {"ParseMultipartForm", "FormFile", "MkdirTemp", "os.Create",
     "io.Copy(out)", "MkdirAll"}

\* C19: when the engine is called, and while it runs, the staged input is a
\* file directly in the request's temporary directory, and `output` is a
\* directory in the same temporary directory at another path than the
\* staged input. An upload named like the output directory never reaches
\* the engine: once its steps up to os.MkdirAll are done, the request has
\* failed with an error status, at os.MkdirAll if the upload was staged.
C19_EngineFindsInputAndOutputDir ==
    \A r \in Handled :
        /\ pc[r] \in {"ProcessEncryption", "engine"} =>
              /\ IsDir(fs, tempDir[r]) /\ fs[tempDir[r]].by = r
              /\ inputPath[r] = Append(tempDir[r], request[r].fileName)
              /\ IsFile(fs, inputPath[r])
              /\ outputDir[r] = Append(tempDir[r], "output")
              /\ IsDir(fs, outputDir[r])
              /\ outputDir[r] # inputPath[r]
        /\ request[r].fileName = "output" =>
              /\ hist[r].engineCalls = 0
              /\ pc[r] \notin {"ProcessEncryption", "engine"}
              /\ pc[r] \notin UpToMkdirAll =>
                    /\ Finished(r)
                    /\ hist[r].failedAt \in BeforeWorkspace \cup {"save", "mkdirall"}
                    /\ w[r].status \in {StatusBadRequest, StatusInternalServerError}
                    /\ hist[r].failedAt \notin BeforeWorkspace \cup {"save"} =>
                          /\ hist[r].failedAt = "mkdirall"
                          /\ w[r].status = StatusInternalServerError

\* C19 witness: an upload named `output` was staged and the request failed
\* at os.MkdirAll, while the engine runs for the other request.
C19_Witness ==
    \E r, s \in Handled :
        /\ request[r].fileName = "output" /\ hist[r].failedAt = "mkdirall"
        /\ IsFile(fs, inputPath[r])
        /\ fs[inputPath[r]].data = UploadData(r, request[r].fileBytes)
        /\ pc[s] = "engine"

\* The deferred calls of EncryptEPUB in the order of their registration.
Registration == <<"file.Close", "os.RemoveAll", "encryptedFile.Close">>

RECURSIVE Reverse(_)
Reverse(s) == IF s = <<>> THEN <<>> ELSE Append(Reverse(Tail(s)), Head(s))

\* C20: the deferred calls run in the reverse of the order in which they
\* were registered: the handle on the encrypted file is closed while the
\* workspace still exists, the workspace is removed while the uploaded file
\* is still open, the handle on the staged file is open only during the
\* copy, and when the handler has returned no handle is open and no
\* deferred call is left.
C20_DeferredRunInReverse ==
    \A r \in Handled :
        /\ IsPrefix(defers[r] \o Reverse(hist[r].unwound), Registration)
        /\ "encryptedFile" \in open[r] =>
              /\ hist[r].released = 0
              /\ IsDir(fs, tempDir[r])
        /\ HoldsWorkspace(r) => "file" \in open[r]
        /\ "out" \in open[r] => pc[r] = "io.Copy(out)"
        /\ Returned(r) =>
              /\ open[r] = {}
              /\ defers[r] = <<>>
              /\ hist[r].opened = "found" /\ hist[r].failedAt # "open" =>
                    hist[r].unwound =
                        <<"encryptedFile.Close", "os.RemoveAll", "file.Close">>

\* C20 witness: a handler has returned after all three deferred calls, the
\* staged file and the encrypted file having been open in between.
C20_Witness ==
    \E r \in Handled :
        /\ Returned(r)
        /\ hist[r].unwound = <<"encryptedFile.Close", "os.RemoveAll", "file.Close">>
        /\ hist[r].opened = "found" /\ hist[r].released = 1
====
